---- MODULE Spec2Model ----
(***************************************************************************)
(* A model of main.py: the journal-report pipeline.  A text is a sequence  *)
(* of strings, one per character (a fixed literal of the program is one    *)
(* string).  The three date markers of a file name (U+5E74, U+6708,        *)
(* U+65E5) are written "nen", "gatsu", "nichi".                            *)
(***************************************************************************)
EXTENDS Integers, Sequences, FiniteSets, TLC

VARIABLES
    pc,             \* position of the running function
    token_file,     \* the token store (token.json)
    next_token,     \* the next access token the authorization server issues
    auth,           \* what the last get_google_service call did
    api_key,        \* os.getenv("OPENAI_API_KEY")
    start_date,     \* run_process / fetch_documents argument
    end_date,       \* run_process / fetch_documents argument
    list_response,  \* outcome of drive_service.files().list(...).execute()
    documents,      \* what fetch_documents returned
    doc_idx,        \* position of "for doc in documents"
    doc_response,   \* outcome of docs_service.documents().get(...).execute()
    content_text,   \* what extract_content returned
    combined_text,  \* run_process's accumulator
    report_content, \* what generate_report returned
    calls           \* every function call and external call made, in order

vars == <<pc, token_file, next_token, auth, api_key, start_date, end_date,
          list_response, documents, doc_idx, doc_response, content_text,
          combined_text, report_content, calls>>

(***************************************************************************)
(* Characters, digits, int().                                              *)
(***************************************************************************)
DigitSeq == <<"0", "1", "2", "3", "4", "5", "6", "7", "8", "9">>

Digits == {DigitSeq[i] : i \in 1..10}

NonZeroDigits == Digits \ {"0"}

DigitVal(c) == (CHOOSE i \in 1..10 : DigitSeq[i] = c) - 1

RECURSIVE ToInt(_)
ToInt(s) ==
    IF s = <<>> THEN 0
    ELSE ToInt(SubSeq(s, 1, Len(s) - 1)) * 10 + DigitVal(s[Len(s)])

CharAt(s, p) == IF p \in 1..Len(s) THEN s[p] ELSE "EOS"

AllDigits(s, p, n) == \A k \in p..(p + n - 1) : CharAt(s, k) \in Digits

\* The order a backtracking matcher tries the lengths of two greedy
\* one-or-two character groups in.
LengthOrder == << <<2, 2>>, <<2, 1>>, <<1, 2>>, <<1, 1>> >>

(***************************************************************************)
(* re.match(r"^(\d{4})nen(\d{1,2})gatsu(\d{1,2})nichi.*", filename)        *)
(***************************************************************************)
NoMatch == [matched |-> FALSE, year |-> <<>>, month |-> <<>>, day |-> <<>>]

ReMatchWith(s, ml, dl) ==
    /\ AllDigits(s, 1, 4)
    /\ CharAt(s, 5) = "nen"
    /\ AllDigits(s, 6, ml)
    /\ CharAt(s, 6 + ml) = "gatsu"
    /\ AllDigits(s, 7 + ml, dl)
    /\ CharAt(s, 7 + ml + dl) = "nichi"

ReMatch(s) ==
    LET ok == {k \in 1..4 : ReMatchWith(s, LengthOrder[k][1], LengthOrder[k][2])}
    IN  IF ok = {} THEN NoMatch
        ELSE LET k  == CHOOSE k \in ok : \A j \in ok : k <= j
                 ml == LengthOrder[k][1]
                 dl == LengthOrder[k][2]
             IN  [matched |-> TRUE,
                  year    |-> SubSeq(s, 1, 4),
                  month   |-> SubSeq(s, 6, 5 + ml),
                  day     |-> SubSeq(s, 7 + ml, 6 + ml + dl)]

(***************************************************************************)
(* datetime.strptime(text, "%Y-%m-%d"): the format's regular expression    *)
(*   (\d\d\d\d)-(1[0-2]|0[1-9]|[1-9])-(3[0-1]|[1-2]\d|0[1-9]|[1-9]| [1-9]) *)
(* is matched at the start of the text, the whole text must be consumed,   *)
(* and the datetime constructor validates the numbers.                     *)
(***************************************************************************)
IsLeap(y) == y % 4 = 0 /\ (y % 100 /= 0 \/ y % 400 = 0)

DAYS_IN_MONTH == <<31, 28, 31, 30, 31, 30, 31, 31, 30, 31, 30, 31>>

DaysInMonth(y, m) == IF m = 2 /\ IsLeap(y) THEN 29 ELSE DAYS_IN_MONTH[m]

MonthDirective(s, p, n) ==
    IF n = 2
    THEN \/ CharAt(s, p) = "1" /\ CharAt(s, p + 1) \in {"0", "1", "2"}
         \/ CharAt(s, p) = "0" /\ CharAt(s, p + 1) \in NonZeroDigits
    ELSE CharAt(s, p) \in NonZeroDigits

DayDirective(s, p, n) ==
    IF n = 2
    THEN \/ CharAt(s, p) = "3" /\ CharAt(s, p + 1) \in {"0", "1"}
         \/ CharAt(s, p) \in {"1", "2"} /\ CharAt(s, p + 1) \in Digits
         \/ CharAt(s, p) = "0" /\ CharAt(s, p + 1) \in NonZeroDigits
         \/ CharAt(s, p) = " " /\ CharAt(s, p + 1) \in NonZeroDigits
    ELSE CharAt(s, p) \in NonZeroDigits

StrptimeWith(s, ml, dl) ==
    /\ AllDigits(s, 1, 4)
    /\ CharAt(s, 5) = "-"
    /\ MonthDirective(s, 6, ml)
    /\ CharAt(s, 6 + ml) = "-"
    /\ DayDirective(s, 7 + ml, dl)

ValueError == [ok |-> FALSE, date |-> <<0, 0, 0>>]

DatetimeNew(y, m, d) ==
    IF y \in 1..9999 /\ m \in 1..12 /\ d >= 1 /\ d <= DaysInMonth(y, m)
    THEN [ok |-> TRUE, date |-> <<y, m, d>>]
    ELSE ValueError

Strptime(s) ==
    LET ok == {k \in 1..4 : StrptimeWith(s, LengthOrder[k][1], LengthOrder[k][2])}
    IN  IF ok = {} THEN ValueError
        ELSE LET k  == CHOOSE k \in ok : \A j \in ok : k <= j
                 ml == LengthOrder[k][1]
                 dl == LengthOrder[k][2]
             IN  IF 6 + ml + dl /= Len(s) THEN ValueError
                 ELSE DatetimeNew(ToInt(SubSeq(s, 1, 4)),
                                  ToInt(SubSeq(s, 6, 5 + ml)),
                                  ToInt(SubSeq(s, 7 + ml, 6 + ml + dl)))

\* datetime comparison: field by field, most significant first.
DateLE(a, b) ==
    \/ a[1] < b[1]
    \/ a[1] = b[1] /\ a[2] < b[2]
    \/ a[1] = b[1] /\ a[2] = b[2] /\ a[3] <= b[3]

(***************************************************************************)
(* fetch_documents, lines 64-80: the filter over the listed items.         *)
(***************************************************************************)
\* A mutant of DateInRange: the start of the range is excluded.
MutDateInRange(start, doc_date, end) ==
    DateLE(start, doc_date) /\ start /= doc_date /\ DateLE(doc_date, end)

DateInRange(start, doc_date, end) == DateLE(start, doc_date) /\ DateLE(doc_date, end)

ItemMatches(item, start, end) ==
    LET match == ReMatch(item.name)
    IN  IF match.matched
        THEN LET doc_date == Strptime(match.year \o <<"-">> \o match.month
                                      \o <<"-">> \o match.day)
             IN  doc_date.ok /\ DateInRange(start, doc_date.date, end)
        ELSE FALSE

RECURSIVE MatchedDocs(_, _, _, _)
MatchedDocs(its, start, end, matched_docs) ==
    IF its = <<>> THEN matched_docs
    ELSE MatchedDocs(Tail(its), start, end,
                     IF ItemMatches(Head(its), start, end)
                     THEN Append(matched_docs, Head(its))
                     ELSE matched_docs)

\* A function's outcome: the value it returns, or an exception leaving it.
Returns(v) == [raised |-> FALSE, value |-> v]

Raises == [raised |-> TRUE, value |-> <<>>]

\* fetch_documents, lines 57-80.  resp is the outcome of the listing call:
\* status "ok" with the response dict (has_files: the "files" key is there),
\* "HttpError", or "OtherError" (any exception that is not an HttpError).
FetchDocuments(resp, start, end) ==
    IF resp.status = "HttpError" THEN Returns(<<>>)
    ELSE IF resp.status = "OtherError" THEN Raises
    ELSE LET its == IF resp.has_files THEN resp.files ELSE <<>>
         IN  Returns(MatchedDocs(its, start, end, <<>>))

(***************************************************************************)
(* extract_content.  A dict is a record holding its key set ("keys") and   *)
(* the value of each key it may carry; d.get(k) is falsy when k is not in  *)
(* keys and when the value is an empty dict.                               *)
(***************************************************************************)
Truthy(d, k) == k \in d.keys /\ d[k].keys /= {}

\* A mutant of ParagraphText: a space is put after every text run.
RECURSIVE MutParagraphText(_, _)
MutParagraphText(elements, acc) ==
    IF elements = <<>> THEN acc
    ELSE LET el == Head(elements)
         IN  MutParagraphText(Tail(elements),
                 IF Truthy(el, "textRun") /\ "content" \in el.textRun.keys
                 THEN acc \o el.textRun.content \o <<" ">>
                 ELSE acc)

\* lines 98-101: the inner loop over paragraph["elements"].
RECURSIVE ParagraphText(_, _)
ParagraphText(elements, acc) ==
    IF elements = <<>> THEN acc
    ELSE LET el == Head(elements)
         IN  ParagraphText(Tail(elements),
                 IF Truthy(el, "textRun") /\ "content" \in el.textRun.keys
                 THEN acc \o el.textRun.content
                 ELSE acc)

\* lines 95-101: the outer loop over body.get("content", []).
RECURSIVE BodyText(_, _)
BodyText(content, acc) ==
    IF content = <<>> THEN acc
    ELSE LET element == Head(content)
         IN  BodyText(Tail(content),
                 IF Truthy(element, "paragraph") /\ "elements" \in element.paragraph.keys
                 THEN ParagraphText(element.paragraph.elements, acc)
                 ELSE acc)

\* lines 87-102.  resp is the outcome of the retrieval call: status "ok" with
\* the document, "HttpError", or "OtherError".
ExtractContent(resp) ==
    IF resp.status = "HttpError" THEN Returns(<<>>)
    ELSE IF resp.status = "OtherError" THEN Raises
    ELSE LET body    == IF "body" \in resp.doc.keys THEN resp.doc.body
                        ELSE [keys |-> {}, content |-> <<>>]
             content == IF "content" \in body.keys THEN body.content ELSE <<>>
         IN  Returns(BodyText(content, <<>>))

(***************************************************************************)
(* generate_report.                                                       *)
(***************************************************************************)
Whitespace == {" ", "\n", "\t"}

\* str.strip()
RECURSIVE Strip(_)
Strip(s) ==
    IF s = <<>> THEN s
    ELSE IF Head(s) \in Whitespace THEN Strip(Tail(s))
    ELSE IF s[Len(s)] \in Whitespace THEN Strip(SubSeq(s, 1, Len(s) - 1))
    ELSE s

NoKeySentinel == <<"Error: OPENAI_API_KEY not configured.">>

\* A mutant of NoReportSentinel: one sentinel for both failures.
MutNoReportSentinel == NoKeySentinel

NoReportSentinel == <<"Error: could not generate a report.">>

\* lines 126-190: the fixed template around the diary text.
UserPrompt(all_text) == <<"PROMPT_HEAD", "\n", "\n">> \o all_text \o <<"\n", "\n", "PROMPT_SECTIONS">>

\* "not openai.api_key": None (unset) and "" are falsy.
KeyMissing(key) == key \in {"None", ""}

\* lines 108-207.  completion is the outcome of ChatCompletion.create: status
\* "ok" with the message content, "KeyError" (a response without
\* choices[0].message.content) or "APIError" (the call raised).
GenerateReport(all_text, key, completion) ==
    IF KeyMissing(key) THEN Returns(NoKeySentinel)
    ELSE IF completion.status = "ok" THEN Returns(Strip(completion.content))
    ELSE Returns(NoReportSentinel)

\* Whether generate_report reaches the call of the completion service.
CallsCompletion(key) == ~KeyMissing(key)

(***************************************************************************)
(* run_process, line 260: the report's name.                               *)
(***************************************************************************)
RECURSIVE Zfill(_, _)
Zfill(n, width) ==
    IF width = 0 /\ n = 0 THEN <<>>
    ELSE Append(Zfill(n \div 10, IF width = 0 THEN 0 ELSE width - 1), DigitSeq[(n % 10) + 1])

\* strftime("%Y-%m-%d")
Strftime(d) == Zfill(d[1], 4) \o <<"-">> \o Zfill(d[2], 2) \o <<"-">> \o Zfill(d[3], 2)

\* The fixed prefix, U+30EC U+30DD U+30FC U+30C8 and "_".
ReportPrefix == <<"re", "po", "choonpu", "to", "_">>

\* A mutant of ReportName: the start date is written twice.
MutReportName(start, end) == ReportPrefix \o Strftime(start) \o <<"_">> \o Strftime(start)

ReportName(start, end) == ReportPrefix \o Strftime(start) \o <<"_">> \o Strftime(end)

(***************************************************************************)
(* The log of calls.  One entry per call of a pipeline function and per    *)
(* call of an external service, in the order they are made.                *)
(***************************************************************************)
Call(api, id, name, text, status, result) ==
    [api |-> api, id |-> id, name |-> name, text |-> text, status |-> status,
     result |-> result]

\* Identifiers are opaque strings: a kind and a number, both text.
Id(kind, n) == <<kind, DigitSeq[n + 1]>>

NoId == <<"none", "0">>

(***************************************************************************)
(* create_report_document, lines 213-235.  create and insert are the       *)
(* outcomes of files().create(...).execute() and of                        *)
(* documents().batchUpdate(...).execute().                                 *)
(***************************************************************************)
\* A mutant of CreateReportDocument: the text is inserted into the folder's
\* id, not into the new document's.
MutCreateReportDocument(folder, name, text, create, insert) ==
    LET create_call == Call("files.create", folder, name, <<>>,
                            create.status, create.id)
    IN  IF create.status = "ok"
        THEN LET insert_call == Call("documents.batchUpdate", folder, <<>>,
                                     text, insert.status, <<>>)
             IN  [raised |-> insert.status = "OtherError",
                  calls  |-> <<create_call, insert_call>>]
        ELSE [raised |-> create.status = "OtherError",
              calls  |-> <<create_call>>]

CreateReportDocument(folder, name, text, create, insert) ==
    LET create_call == Call("files.create", folder, name, <<>>,
                            create.status, create.id)
    IN  IF create.status = "ok"
        THEN LET doc_id == create.id
                 insert_call == Call("documents.batchUpdate", doc_id, <<>>,
                                     text, insert.status, <<>>)
             IN  [raised |-> insert.status = "OtherError",
                  calls  |-> <<create_call, insert_call>>]
        ELSE [raised |-> create.status = "OtherError",
              calls  |-> <<create_call>>]

(***************************************************************************)
(* get_google_service, lines 30-44.  A credential is its access token (0:  *)
(* none), whether its expiry has passed and whether it carries a refresh   *)
(* token; Credentials.valid is "has a token and is not expired".           *)
(***************************************************************************)
NoTokenFile == [exists |-> FALSE, token |-> 0, expired |-> FALSE, refresh_token |-> FALSE]

CredsValid(creds) == creds.token /= 0 /\ ~creds.expired

\* line 35: "not creds or not creds.valid"
NeedsLogin(file) == ~file.exists \/ ~CredsValid(file)

\* A mutant of CanRefresh: the expiry is not looked at.
MutCanRefresh(file) == file.exists /\ file.refresh_token

\* line 36: "creds and creds.expired and creds.refresh_token"
CanRefresh(file) == file.exists /\ file.expired /\ file.refresh_token

GetGoogleService(file, secret_exists, refresh_ok, flow_ok, fresh) ==
    LET ext(api, status) == Call(api, NoId, <<>>, <<>>, status, <<>>)
        write(creds) == Call("token_file.write", Id("token", creds.token), <<>>, <<>>,
                             "ok", <<>>)
        done(raised, new_file, refreshed, authorized, wrote, made) ==
            [raised |-> raised, token_file |-> new_file, before |-> file,
             refreshed |-> refreshed, authorized |-> authorized, wrote |-> wrote,
             calls |-> made]
    IN  IF NeedsLogin(file)
        THEN IF CanRefresh(file)
             THEN IF refresh_ok
                  THEN LET creds == [file EXCEPT !.token = fresh, !.expired = FALSE]
                       IN  done(FALSE, creds, TRUE, FALSE, TRUE,
                                <<ext("creds.refresh", "ok"), write(creds)>>)
                  ELSE done(TRUE, file, FALSE, FALSE, FALSE,
                            <<ext("creds.refresh", "RefreshError")>>)
             ELSE IF ~secret_exists
                  THEN done(TRUE, file, FALSE, FALSE, FALSE,
                            <<ext("from_client_secrets_file", "FileNotFoundError")>>)
                  ELSE IF flow_ok
                  THEN LET creds == [exists |-> TRUE, token |-> fresh,
                                     expired |-> FALSE, refresh_token |-> TRUE]
                       IN  done(FALSE, creds, FALSE, TRUE, TRUE,
                                <<ext("from_client_secrets_file", "ok"),
                                  ext("run_local_server", "ok"), write(creds)>>)
                  ELSE done(TRUE, file, FALSE, FALSE, FALSE,
                            <<ext("from_client_secrets_file", "ok"),
                              ext("run_local_server", "Error")>>)
        ELSE done(FALSE, file, FALSE, FALSE, FALSE, <<>>)

NoAuth ==
    [raised |-> FALSE, token_file |-> NoTokenFile, before |-> NoTokenFile,
     refreshed |-> FALSE, authorized |-> FALSE, wrote |-> FALSE, calls |-> <<>>]

(***************************************************************************)
(* Bounds and the inputs drawn within them.                                *)
(***************************************************************************)
MaxItems == 2       \* listed items, when fetch_documents runs alone

MaxRunItems == 2    \* listed items, in a run of run_process

MaxBlocks == 2      \* block elements of a document body

MaxElems == 2       \* inline elements of a paragraph

MaxTokens == 6      \* access tokens the authorization server issues

Nm(y, m, d, rest) == y \o <<"nen">> \o m \o <<"gatsu">> \o d \o <<"nichi">> \o rest

Y2024 == <<"2", "0", "2", "4">>

Y2023 == <<"2", "0", "2", "3">>

Names ==
    { Nm(Y2024, <<"2">>, <<"2", "9">>, <<>>),
      Nm(Y2024, <<"0", "2">>, <<"2", "9">>, <<"x">>),
      Nm(Y2024, <<"3">>, <<"1">>, <<"nichi">>),
      Nm(Y2024, <<"0", "3">>, <<"0", "2">>, <<>>),
      Nm(Y2024, <<"3">>, <<"2">>, <<" ", "x">>),
      Nm(Y2024, <<"3">>, <<"3">>, <<>>),
      Nm(Y2024, <<"2">>, <<"2", "8">>, <<>>),
      Nm(Y2023, <<"3">>, <<"1">>, <<>>),
      Nm(<<"2", "0", "2", "5">>, <<"1">>, <<"1">>, <<>>),
      Nm(Y2023, <<"2">>, <<"2", "9">>, <<>>),
      Nm(Y2024, <<"2">>, <<"3", "0">>, <<>>),
      Nm(Y2024, <<"1", "3">>, <<"1">>, <<>>),
      Nm(Y2024, <<"0">>, <<"1">>, <<>>),
      Nm(Y2024, <<"3">>, <<"0">>, <<>>),
      Nm(Y2024, <<"3">>, <<"0", "0">>, <<>>),
      Nm(Y2024, <<"3">>, <<"3", "2">>, <<>>),
      Nm(Y2024, <<"4">>, <<"3", "1">>, <<>>),
      Nm(<<"0", "0", "0", "0">>, <<"3">>, <<"1">>, <<>>),
      Nm(<<"2", "0", "2">>, <<"3">>, <<"1">>, <<>>),
      Nm(<<"2", "0", "2", "4", "5">>, <<"3">>, <<"1">>, <<>>),
      Nm(Y2024, <<"0", "0", "3">>, <<"1">>, <<>>),
      Nm(Y2024, <<"3">>, <<"0", "0", "1">>, <<>>),
      <<"x">> \o Nm(Y2024, <<"3">>, <<"1">>, <<>>),
      Y2024 \o <<"nen", "3", "gatsu", "1">>,
      Y2024 \o <<"gatsu", "3", "nen", "1", "nichi">>,
      Y2024 \o <<"-", "0", "3", "-", "0", "1">>,
      <<"i", "n", "v", "a", "l", "i", "d">>,
      <<>> }

\* The names of a run of run_process: two in range, one that matches nothing.
RunNames ==
    { Nm(Y2024, <<"2">>, <<"2", "9">>, <<>>),
      Nm(Y2024, <<"0", "3">>, <<"0", "2">>, <<"x">>),
      <<"i", "n", "v", "a", "l", "i", "d">> }

Dates == {<<2024, 2, 29>>, <<2024, 3, 2>>}

\* The store gives each file its own id: here, its position in the listing.
Items(names) == [i \in 1..Len(names) |-> [id |-> Id("doc", i), name |-> names[i]]]

Listings(names, n) == UNION {[1..k -> names] : k \in 0..n}

ListResponses(names, n) ==
    {[status |-> "ok", has_files |-> TRUE, files |-> Items(f)] : f \in Listings(names, n)}
    \cup {[status |-> "ok", has_files |-> FALSE, files |-> <<>>],
          [status |-> "HttpError", has_files |-> FALSE, files |-> <<>>],
          [status |-> "OtherError", has_files |-> FALSE, files |-> <<>>]}

NoListResponse == [status |-> "none", has_files |-> FALSE, files |-> <<>>]

\* Inline elements: two text runs, a text run without content, an empty
\* text run, and an element that is no text run.
TextRunEl(c) == [keys |-> {"textRun"}, textRun |-> [keys |-> {"content"}, content |-> c]]

InlineElements ==
    { TextRunEl(<<"a", " ">>),
      TextRunEl(<<"\n", "b">>),
      [keys |-> {"textRun"}, textRun |-> [keys |-> {"textStyle"}, content |-> <<>>]],
      [keys |-> {"inlineObjectElement"}, textRun |-> [keys |-> {}, content |-> <<>>]] }

SeqsUpTo(S, n) == UNION {[1..k -> S] : k \in 0..n}

ParagraphEl(els) ==
    [keys |-> {"paragraph"}, paragraph |-> [keys |-> {"elements"}, elements |-> els]]

\* Block elements: paragraphs, a paragraph without elements, a table.
BlockElements ==
    { ParagraphEl(els) : els \in SeqsUpTo(InlineElements, MaxElems) }
    \cup {[keys |-> {"paragraph"},
           paragraph |-> [keys |-> {"paragraphStyle"}, elements |-> <<>>]],
          [keys |-> {"table"}, paragraph |-> [keys |-> {}, elements |-> <<>>]]}

DocOf(content) == [keys |-> {"body"}, body |-> [keys |-> {"content"}, content |-> content]]

\* Empty dicts where a paragraph or a text run is expected.
EmptyParagraph == [keys |-> {"paragraph"}, paragraph |-> [keys |-> {}, elements |-> <<>>]]

EmptyTextRun == [keys |-> {"textRun"}, textRun |-> [keys |-> {}, content |-> <<>>]]

Docs ==
    { DocOf(content) : content \in SeqsUpTo(BlockElements, MaxBlocks) }
    \cup {[keys |-> {"body"}, body |-> [keys |-> {}, content |-> <<>>]],
          [keys |-> {}, body |-> [keys |-> {}, content |-> <<>>]],
          DocOf(<<EmptyParagraph>>),
          DocOf(<<ParagraphEl(<<EmptyTextRun>>)>>),
          DocOf(<<ParagraphEl(<<TextRunEl(<<"a", " ">>)>>), EmptyParagraph,
                  ParagraphEl(<<EmptyTextRun, TextRunEl(<<"\n", "b">>)>>)>>)}

\* The documents of a run of run_process.
RunDocs ==
    { DocOf(<<ParagraphEl(<<TextRunEl(<<"a", " ">>)>>)>>),
      DocOf(<<ParagraphEl(<<TextRunEl(<<"\n", "b">>)>>)>>) }

DocResponses(docs) ==
    {[status |-> "ok", doc |-> d] : d \in docs}
    \cup {[status |-> s, doc |-> [keys |-> {}, body |-> [keys |-> {}, content |-> <<>>]]]
          : s \in {"HttpError", "OtherError"}}

NoDocResponse ==
    [status |-> "none", doc |-> [keys |-> {}, body |-> [keys |-> {}, content |-> <<>>]]]

ApiKeys == {"None", "", "sk-fake-key"}

Completions ==
    {[status |-> "ok", content |-> c] : c \in {<<"R">>, <<" ", "R", "\n">>}}
    \cup {[status |-> s, content |-> <<>>] : s \in {"KeyError", "APIError"}}

CreateOutcomes ==
    {[status |-> "ok", id |-> Id("new", 1)],
     [status |-> "ok", id |-> Id("new", 2)],
     [status |-> "HttpError", id |-> NoId],
     [status |-> "OtherError", id |-> NoId]}

InsertOutcomes == {[status |-> s] : s \in {"ok", "HttpError", "OtherError"}}

FolderId == Id("folder", 1)

ReportFolderId == Id("folder", 2)

TokenFiles(n) ==
    {NoTokenFile}
    \cup [exists : {TRUE}, token : 0..n, expired : BOOLEAN, refresh_token : BOOLEAN]

(***************************************************************************)
(* run_process, lines 243-261, one action per step.                        *)
(***************************************************************************)
Init ==
    /\ pc = "get_drive"
    /\ token_file \in TokenFiles(1)
    /\ next_token = 2
    /\ auth = NoAuth
    /\ api_key \in ApiKeys
    /\ start_date \in Dates
    /\ end_date \in Dates
    /\ list_response = NoListResponse
    /\ documents = <<>>
    /\ doc_idx = 0
    /\ doc_response = NoDocResponse
    /\ content_text = <<>>
    /\ combined_text = <<>>
    /\ report_content = <<>>
    /\ calls = <<>>

\* lines 243 and 245: get_google_service("drive", "v3"), then ("docs", "v1").
GetService(from, to) ==
    /\ pc = from
    /\ \E secret_exists \in BOOLEAN, refresh_ok \in BOOLEAN, flow_ok \in BOOLEAN :
         LET r == GetGoogleService(token_file, secret_exists, refresh_ok, flow_ok,
                                   next_token)
         IN  /\ auth' = r
             /\ token_file' = r.token_file
             /\ next_token' = IF r.wrote THEN next_token + 1 ELSE next_token
             /\ calls' = calls \o r.calls
             /\ pc' = IF r.raised THEN "aborted" ELSE to
    /\ UNCHANGED <<api_key, start_date, end_date, list_response, documents, doc_idx,
                   doc_response, content_text, combined_text, report_content>>

GetDriveService == GetService("get_drive", "get_docs")

GetDocsService == GetService("get_docs", "fetch")

\* A mutant of AfterFetch: no early return, the loop runs over nothing.
MutAfterFetch(docs) == IF docs = <<>> THEN "generate" ELSE "extract"

\* lines 249-251: "if not documents: ... return".
AfterFetch(docs) == IF docs = <<>> THEN "done" ELSE "extract"

\* lines 247-253: fetch_documents, the early return, the accumulator.
Fetch ==
    /\ pc = "fetch"
    /\ \E resp \in ListResponses(RunNames, MaxRunItems) :
         LET r == FetchDocuments(resp, start_date, end_date)
         IN  /\ list_response' = resp
             /\ calls' = calls \o <<Call("fetch_documents", FolderId, <<>>, <<>>,
                                         IF r.raised THEN "raised" ELSE "returned",
                                         <<>>),
                                    Call("files.list", FolderId, <<>>, <<>>, resp.status,
                                         <<>>)>>
             /\ documents' = r.value
             /\ doc_idx' = IF r.raised \/ r.value = <<>> THEN 0 ELSE 1
             /\ pc' = IF r.raised THEN "aborted" ELSE AfterFetch(r.value)
    /\ combined_text' = <<>>
    /\ UNCHANGED <<token_file, next_token, auth, api_key, start_date, end_date,
                   doc_response, content_text, report_content>>

\* lines 254-256: one iteration of "for doc in documents".
Extract ==
    /\ pc = "extract"
    /\ \E resp \in DocResponses(RunDocs) :
         LET doc_id == documents[doc_idx].id
             r      == ExtractContent(resp)
         IN  /\ doc_response' = resp
             /\ calls' = calls \o <<Call("extract_content", doc_id, <<>>, <<>>,
                                         IF r.raised THEN "raised" ELSE "returned",
                                         r.value),
                                    Call("documents.get", doc_id, <<>>, <<>>, resp.status,
                                         <<>>)>>
             /\ IF r.raised
                THEN /\ pc' = "aborted"
                     /\ UNCHANGED <<content_text, combined_text, doc_idx>>
                ELSE /\ content_text' = r.value
                     /\ combined_text' = combined_text \o r.value \o <<"\n">>
                     /\ doc_idx' = doc_idx + 1
                     /\ pc' = IF doc_idx = Len(documents) THEN "generate" ELSE "extract"
    /\ UNCHANGED <<token_file, next_token, auth, api_key, start_date, end_date,
                   list_response, documents, report_content>>

\* line 258: generate_report(combined_text, 'gpt-4o').
Generate ==
    /\ pc = "generate"
    /\ \E completion \in Completions :
         LET r == GenerateReport(combined_text, api_key, completion)
         IN  /\ report_content' = r.value
             /\ calls' = calls
                  \o <<Call("generate_report", NoId, <<>>, combined_text, "returned",
                            r.value)>>
                  \o (IF CallsCompletion(api_key)
                      THEN <<Call("ChatCompletion.create", NoId, <<>>,
                                  UserPrompt(combined_text), completion.status, <<>>)>>
                      ELSE <<>>)
    /\ pc' = "write"
    /\ UNCHANGED <<token_file, next_token, auth, api_key, start_date, end_date,
                   list_response, documents, doc_idx, doc_response, content_text,
                   combined_text>>

\* lines 260-261: the report's name, then create_report_document.
Write ==
    /\ pc = "write"
    /\ \E create \in CreateOutcomes, insert \in InsertOutcomes :
         LET report_name == ReportName(start_date, end_date)
             w == CreateReportDocument(ReportFolderId, report_name, report_content,
                                       create, insert)
         IN  /\ calls' = calls
                  \o <<Call("create_report_document", ReportFolderId, report_name,
                            report_content, IF w.raised THEN "raised" ELSE "returned",
                            <<>>)>>
                  \o w.calls
             /\ pc' = IF w.raised THEN "aborted" ELSE "done"
    /\ UNCHANGED <<token_file, next_token, auth, api_key, start_date, end_date,
                   list_response, documents, doc_idx, doc_response, content_text,
                   combined_text, report_content>>

Next ==
    \/ GetDriveService
    \/ GetDocsService
    \/ Fetch
    \/ Extract
    \/ Generate
    \/ Write

Spec == Init /\ [][Next]_vars

(***************************************************************************)
(* fetch_documents alone, on every listing within the bounds.              *)
(***************************************************************************)
InitFetch ==
    /\ pc = "fetch_documents"
    /\ list_response \in ListResponses(Names, MaxItems)
    /\ start_date \in Dates
    /\ end_date \in Dates
    /\ token_file = NoTokenFile
    /\ next_token = 1
    /\ auth = NoAuth
    /\ api_key = "None"
    /\ documents = <<>>
    /\ doc_idx = 0
    /\ doc_response = NoDocResponse
    /\ content_text = <<>>
    /\ combined_text = <<>>
    /\ report_content = <<>>
    /\ calls = <<>>

FetchAlone ==
    /\ pc = "fetch_documents"
    /\ LET r == FetchDocuments(list_response, start_date, end_date)
       IN  /\ documents' = r.value
           /\ pc' = IF r.raised THEN "raised" ELSE "returned"
    /\ calls' = Append(calls, Call("files.list", FolderId, <<>>, <<>>,
                                   list_response.status, <<>>))
    /\ UNCHANGED <<token_file, next_token, auth, api_key, start_date, end_date,
                   list_response, doc_idx, doc_response, content_text, combined_text,
                   report_content>>

SpecFetch == InitFetch /\ [][FetchAlone]_vars

(***************************************************************************)
(* extract_content alone, on every document within the bounds.             *)
(***************************************************************************)
InitExtract ==
    /\ pc = "extract_content"
    /\ doc_response \in DocResponses(Docs)
    /\ list_response = NoListResponse
    /\ start_date = <<2024, 1, 1>>
    /\ end_date = <<2024, 1, 1>>
    /\ token_file = NoTokenFile
    /\ next_token = 1
    /\ auth = NoAuth
    /\ api_key = "None"
    /\ documents = <<>>
    /\ doc_idx = 0
    /\ content_text = <<>>
    /\ combined_text = <<>>
    /\ report_content = <<>>
    /\ calls = <<>>

ExtractAlone ==
    /\ pc = "extract_content"
    /\ LET r == ExtractContent(doc_response)
       IN  /\ content_text' = r.value
           /\ pc' = IF r.raised THEN "raised" ELSE "returned"
    /\ calls' = Append(calls, Call("documents.get", NoId, <<>>, <<>>,
                                   doc_response.status, <<>>))
    /\ UNCHANGED <<token_file, next_token, auth, api_key, start_date, end_date,
                   list_response, documents, doc_idx, doc_response, combined_text,
                   report_content>>

SpecExtract == InitExtract /\ [][ExtractAlone]_vars

(***************************************************************************)
(* get_google_service alone, called again and again on the token store it  *)
(* left, while stored credentials expire.                                  *)
(***************************************************************************)
InitCred ==
    /\ pc = "get_google_service"
    /\ token_file \in TokenFiles(1)
    /\ next_token = 2
    /\ auth = NoAuth
    /\ list_response = NoListResponse
    /\ start_date = <<2024, 1, 1>>
    /\ end_date = <<2024, 1, 1>>
    /\ api_key = "None"
    /\ documents = <<>>
    /\ doc_idx = 0
    /\ doc_response = NoDocResponse
    /\ content_text = <<>>
    /\ combined_text = <<>>
    /\ report_content = <<>>
    /\ calls = <<>>

CredUnchanged ==
    UNCHANGED <<api_key, start_date, end_date, list_response, documents, doc_idx,
                doc_response, content_text, combined_text, report_content>>

CredCall ==
    /\ pc \in {"get_google_service", "returned", "raised"}
    /\ next_token <= MaxTokens
    /\ \E secret_exists \in BOOLEAN, refresh_ok \in BOOLEAN, flow_ok \in BOOLEAN :
         LET r == GetGoogleService(token_file, secret_exists, refresh_ok, flow_ok,
                                   next_token)
         IN  /\ auth' = r
             /\ token_file' = r.token_file
             /\ next_token' = IF r.wrote THEN next_token + 1 ELSE next_token
             /\ calls' = r.calls
             /\ pc' = IF r.raised THEN "raised" ELSE "returned"
    /\ CredUnchanged

\* Time passes: the stored credential's expiry is reached.
TokenExpires ==
    /\ pc \in {"returned", "raised"}
    /\ token_file.exists
    /\ ~token_file.expired
    /\ token_file' = [token_file EXCEPT !.expired = TRUE]
    /\ pc' = "get_google_service"
    /\ UNCHANGED <<next_token, auth, calls>>
    /\ CredUnchanged

\* The user deletes token.json.
TokenFileRemoved ==
    /\ pc \in {"returned", "raised"}
    /\ token_file.exists
    /\ token_file' = NoTokenFile
    /\ pc' = "get_google_service"
    /\ UNCHANGED <<next_token, auth, calls>>
    /\ CredUnchanged

NextCred == CredCall \/ TokenExpires \/ TokenFileRemoved

SpecCred == InitCred /\ [][NextCred]_vars

(***************************************************************************)
(* The log, read back.                                                     *)
(***************************************************************************)
CallsOf(api) == SelectSeq(calls, LAMBDA c : c.api = api)

Made(api) == \E i \in 1..Len(calls) : calls[i].api = api

MadeWith(api, status) ==
    \E i \in 1..Len(calls) : calls[i].api = api /\ calls[i].status = status

(***************************************************************************)
(* C1.  fetch_documents returns exactly the listed items whose name is     *)
(* four digits, the year marker, one or two digits, the month marker, one  *)
(* or two digits, the day marker and then anything, whose numbers are a    *)
(* date of the calendar, and whose date lies in [start, end], both ends    *)
(* included; it returns them in the order of the listing, duplicates kept. *)
(***************************************************************************)
C1_Shape(name, lm, ld) ==
    /\ Len(name) >= 7 + lm + ld
    /\ \A k \in 1..4 : name[k] \in Digits
    /\ name[5] = "nen"
    /\ \A k \in 6..(5 + lm) : name[k] \in Digits
    /\ name[6 + lm] = "gatsu"
    /\ \A k \in (7 + lm)..(6 + lm + ld) : name[k] \in Digits
    /\ name[7 + lm + ld] = "nichi"

C1_CalendarDate(y, m, d) ==
    /\ y >= 1
    /\ m \in 1..12
    /\ d >= 1
    /\ d <= (IF m \in {4, 6, 9, 11} THEN 30
             ELSE IF m /= 2 THEN 31
             ELSE IF y % 400 = 0 \/ (y % 4 = 0 /\ y % 100 /= 0) THEN 29
             ELSE 28)

C1_DayKey(date) == date[1] * 10000 + date[2] * 100 + date[3]

C1_Included(name, start, end) ==
    \E lm \in 1..2, ld \in 1..2 :
        /\ C1_Shape(name, lm, ld)
        /\ LET y == ToInt(SubSeq(name, 1, 4))
               m == ToInt(SubSeq(name, 6, 5 + lm))
               d == ToInt(SubSeq(name, 7 + lm, 6 + lm + ld))
           IN  /\ C1_CalendarDate(y, m, d)
               /\ C1_DayKey(start) <= C1_DayKey(<<y, m, d>>)
               /\ C1_DayKey(<<y, m, d>>) <= C1_DayKey(end)

C1_FetchFilters ==
    (pc = "returned" /\ list_response.status = "ok" /\ list_response.has_files)
    => documents = SelectSeq(list_response.files,
                             LAMBDA it : C1_Included(it.name, start_date, end_date))

\* A listing of two files of the same name, the date of the start of the
\* range, after a file whose date is no date of the calendar: both are kept.
C1_Witness ==
    /\ pc = "returned"
    /\ Len(list_response.files) = 2
    /\ list_response.files[1].name = Nm(Y2024, <<"2">>, <<"3", "0">>, <<>>)
    /\ list_response.files[2].name = Nm(Y2024, <<"0", "2">>, <<"2", "9">>, <<"x">>)
    /\ start_date = <<2024, 2, 29>>
    /\ documents = <<list_response.files[2]>>

(***************************************************************************)
(* C9.  extract_content returns the content strings of the text runs of    *)
(* the paragraphs of the body, concatenated in document order, nothing     *)
(* put between them and nothing trimmed; other blocks and other inline     *)
(* elements give nothing.                                                  *)
(***************************************************************************)
C9_RunText(el) ==
    IF "textRun" \in el.keys /\ "content" \in el.textRun.keys
    THEN el.textRun.content
    ELSE <<>>

RECURSIVE C9_Runs(_)
C9_Runs(els) ==
    IF els = <<>> THEN <<>>
    ELSE C9_Runs(SubSeq(els, 1, Len(els) - 1)) \o C9_RunText(els[Len(els)])

C9_BlockText(block) ==
    IF "paragraph" \in block.keys /\ "elements" \in block.paragraph.keys
    THEN C9_Runs(block.paragraph.elements)
    ELSE <<>>

RECURSIVE C9_Blocks(_)
C9_Blocks(blocks) ==
    IF blocks = <<>> THEN <<>>
    ELSE C9_Blocks(SubSeq(blocks, 1, Len(blocks) - 1)) \o C9_BlockText(blocks[Len(blocks)])

C9_ExtractConcatenates ==
    (pc = "returned" /\ doc_response.status = "ok")
    => content_text =
         (IF "body" \in doc_response.doc.keys /\ "content" \in doc_response.doc.body.keys
          THEN C9_Blocks(doc_response.doc.body.content)
          ELSE <<>>)

\* Two paragraphs: a text run and an element that is none, then two runs.
C9_Witness ==
    /\ pc = "returned"
    /\ doc_response.status = "ok"
    /\ Len(doc_response.doc.body.content) = 2
    /\ Len(doc_response.doc.body.content[1].paragraph.elements) = 2
    /\ Len(doc_response.doc.body.content[2].paragraph.elements) = 2
    /\ content_text = <<"\n", "b", "a", " ", "\n", "b">>

(***************************************************************************)
(* C10.  A call of get_google_service writes the token store exactly when  *)
(* it refreshed the credential or ran the interactive authorization, and   *)
(* then writes the credential it ends with.  It refreshes only a loaded    *)
(* credential that is invalid, expired and has a refresh token; it starts  *)
(* the authorization only with no credential loaded, or with one that is   *)
(* invalid and not refreshable; with a valid credential loaded it does     *)
(* neither and leaves the token store as it was.                           *)
(***************************************************************************)
C10_Valid(c) == c.exists /\ c.token /= 0 /\ ~c.expired

C10_TokenStoreWrites ==
    pc \in {"returned", "raised"} =>
      LET before     == auth.before
          wrote      == Made("token_file.write")
          refreshed  == MadeWith("creds.refresh", "ok")
          authorized == MadeWith("run_local_server", "ok")
      IN  /\ wrote <=> (refreshed \/ authorized)
          /\ wrote => /\ Len(CallsOf("token_file.write")) = 1
                      /\ calls[Len(calls)].api = "token_file.write"
                      /\ calls[Len(calls)].id = Id("token", token_file.token)
                      /\ C10_Valid(token_file)
                      /\ token_file /= before
                      /\ pc = "returned"
          /\ ~wrote => token_file = before
          /\ Made("creds.refresh") =>
                /\ before.exists /\ ~C10_Valid(before)
                /\ before.expired /\ before.refresh_token
          /\ Made("from_client_secrets_file") =>
                \/ ~before.exists
                \/ ~C10_Valid(before) /\ ~(before.expired /\ before.refresh_token)
          /\ C10_Valid(before) => calls = <<>> /\ token_file = before /\ pc = "returned"

\* A stored credential that expired is refreshed and written back.
C10_Witness ==
    /\ pc = "returned"
    /\ MadeWith("creds.refresh", "ok")
    /\ auth.before.token = 2
    /\ token_file.token = 3

(***************************************************************************)
(* Claims about a run of run_process.                                      *)
(***************************************************************************)
Ended == pc \in {"done", "aborted"}

ServiceFailed ==
    \E i \in 1..Len(calls) :
        calls[i].api = "ChatCompletion.create" /\ calls[i].status /= "ok"

\* The position of the only call of an api in the log.
IndexOf(api) == CHOOSE i \in 1..Len(calls) : calls[i].api = api

(***************************************************************************)
(* C2.  When fetch_documents returns an empty list, whether nothing        *)
(* matched or the listing failed, the run ends normally and makes no       *)
(* extraction, generation, creation or insertion call.                     *)
(***************************************************************************)
C2_NothingToDo ==
    (MadeWith("fetch_documents", "returned") /\ documents = <<>>)
    => /\ pc = "done"
       /\ \A i \in 1..Len(calls) :
            calls[i].api \notin {"extract_content", "documents.get", "generate_report",
                                 "ChatCompletion.create", "create_report_document",
                                 "files.create", "documents.batchUpdate"}

\* The listing call failed with an HttpError and the run is over.
C2_Witness ==
    /\ pc = "done"
    /\ documents = <<>>
    /\ MadeWith("files.list", "HttpError")

(***************************************************************************)
(* C3, as claimed.  create_report_document always makes one creation call  *)
(* and then one insertion call that names the created document, whatever   *)
(* the creation call's outcome.                                            *)
(***************************************************************************)
C3_AlwaysCreatesThenInserts ==
    Made("create_report_document")
    => /\ Len(CallsOf("files.create")) = 1
       /\ Len(CallsOf("documents.batchUpdate")) = 1
       /\ IndexOf("documents.batchUpdate") = IndexOf("files.create") + 1
       /\ calls[IndexOf("documents.batchUpdate")].id = calls[IndexOf("files.create")].result

(***************************************************************************)
(* C3, amended.  create_report_document always makes exactly one creation  *)
(* call, with the given name and folder.  When that call succeeds, exactly *)
(* one insertion call follows it, naming the created document and carrying *)
(* the given text; when it fails, no insertion call is made.               *)
(***************************************************************************)
C3_CreatesThenInsertsOnSuccess ==
    Made("create_report_document")
    => LET w  == calls[IndexOf("create_report_document")]
           cs == CallsOf("files.create")
           is == CallsOf("documents.batchUpdate")
       IN  /\ Len(cs) = 1
           /\ IndexOf("files.create") = IndexOf("create_report_document") + 1
           /\ cs[1].name = w.name
           /\ cs[1].id = w.id
           /\ cs[1].status = "ok" =>
                /\ Len(is) = 1
                /\ IndexOf("documents.batchUpdate") = IndexOf("files.create") + 1
                /\ is[1].id = cs[1].result
                /\ is[1].text = w.text
           /\ cs[1].status /= "ok" => Len(is) = 0

\* The creation call failed with an HttpError: the writer returned, and no
\* insertion was made.
C3_Witness ==
    /\ pc = "done"
    /\ MadeWith("create_report_document", "returned")
    /\ MadeWith("files.create", "HttpError")

(***************************************************************************)
(* C4, as claimed.  When the completion call fails, generate_report        *)
(* returns the string it returns when the API key is missing.              *)
(***************************************************************************)
C4_SameSentinel ==
    ServiceFailed => report_content = <<"Error: OPENAI_API_KEY not configured.">>

(***************************************************************************)
(* C4, amended.  generate_report returns a fixed string in each failure    *)
(* mode, and the two differ: "Error: OPENAI_API_KEY not configured." when  *)
(* the key is missing (the completion service is then not called), and     *)
(* "Error: could not generate a report." when the completion call fails.   *)
(***************************************************************************)
C4_TwoSentinels ==
    Made("generate_report")
    => /\ api_key \in {"None", ""} =>
            /\ report_content = <<"Error: OPENAI_API_KEY not configured.">>
            /\ ~Made("ChatCompletion.create")
       /\ api_key \notin {"None", ""} => Len(CallsOf("ChatCompletion.create")) = 1
       /\ ServiceFailed => report_content = <<"Error: could not generate a report.">>
       /\ calls[IndexOf("generate_report")].result = report_content

\* The completion call raised, and the second sentinel came back.
C4_Witness ==
    /\ MadeWith("ChatCompletion.create", "APIError")
    /\ report_content = <<"Error: could not generate a report.">>
    /\ report_content /= <<"Error: OPENAI_API_KEY not configured.">>

(***************************************************************************)
(* C5.  Once both service handles are obtained, no failure of an external  *)
(* call escapes its component: run_process never ends abnormally.          *)
(***************************************************************************)
C5_NoFailureEscapes == Made("fetch_documents") => pc /= "aborted"

(***************************************************************************)
(* C6.  When fetch_documents returns a non-empty list D, the run calls     *)
(* extract_content once per element of D, in the order of D, and then      *)
(* generate_report once, with each extracted text followed by a newline,   *)
(* concatenated in that order.                                             *)
(***************************************************************************)
RECURSIVE C6_Joined(_)
C6_Joined(extracts) ==
    IF extracts = <<>> THEN <<>>
    ELSE Head(extracts).result \o <<"\n">> \o C6_Joined(Tail(extracts))

C6_ExtractsAllThenGenerates ==
    (MadeWith("fetch_documents", "returned") /\ documents /= <<>> /\ Ended)
    => LET ex == CallsOf("extract_content")
           g  == CallsOf("generate_report")
       IN  /\ Len(ex) = Len(documents)
           /\ \A i \in 1..Len(ex) : ex[i].id = documents[i].id
           /\ Len(g) = 1
           /\ g[1].text = C6_Joined(ex)
           /\ \A i \in 1..Len(calls) :
                calls[i].api = "extract_content" => i < IndexOf("generate_report")

(***************************************************************************)
(* C7.  When generate_report fails, for a missing API key or a failed      *)
(* completion call, the run still attempts exactly one write of the        *)
(* report: to the destination folder, with the sentinel the generator      *)
(* returned as its body, under the name made of the fixed prefix, the      *)
(* start date as YYYY-MM-DD, "_" and the end date as YYYY-MM-DD.           *)
(***************************************************************************)
C7_Pow10(k) == IF k = 0 THEN 1 ELSE IF k = 1 THEN 10 ELSE IF k = 2 THEN 100 ELSE 1000

C7_Fixed(n, width) ==
    [k \in 1..width |-> DigitSeq[((n \div C7_Pow10(width - k)) % 10) + 1]]

C7_Name(start, end) ==
    <<"re", "po", "choonpu", "to", "_">>
    \o C7_Fixed(start[1], 4) \o <<"-">> \o C7_Fixed(start[2], 2) \o <<"-">>
    \o C7_Fixed(start[3], 2) \o <<"_">>
    \o C7_Fixed(end[1], 4) \o <<"-">> \o C7_Fixed(end[2], 2) \o <<"-">>
    \o C7_Fixed(end[3], 2)

C7_GenerationFailed ==
    Made("generate_report") /\ (api_key \in {"None", ""} \/ ServiceFailed)

C7_SentinelReportWritten ==
    (C7_GenerationFailed /\ Ended)
    => LET w  == CallsOf("create_report_document")
           cs == CallsOf("files.create")
           is == CallsOf("documents.batchUpdate")
       IN  /\ documents /= <<>>
           /\ Len(w) = 1
           /\ w[1].id = Id("folder", 2)
           /\ w[1].name = C7_Name(start_date, end_date)
           /\ w[1].text = calls[IndexOf("generate_report")].result
           /\ w[1].text \in {<<"Error: OPENAI_API_KEY not configured.">>,
                             <<"Error: could not generate a report.">>}
           /\ Len(cs) = 1
           /\ cs[1].id = Id("folder", 2)
           /\ cs[1].name = C7_Name(start_date, end_date)
           /\ \A i \in 1..Len(is) : is[i].text = w[1].text

\* No API key: the sentinel was written into a new document.
C7_Witness ==
    /\ pc = "done"
    /\ api_key = "None"
    /\ start_date /= end_date
    /\ MadeWith("documents.batchUpdate", "ok")
    /\ calls[Len(calls)].text = <<"Error: OPENAI_API_KEY not configured.">>

(***************************************************************************)
(* C8.  When the retrieval of one located document fails, the document     *)
(* gives no text, and the run is not aborted: every located document is    *)
(* still extracted, and generation and writing still happen.               *)
(***************************************************************************)
C8_FailedDocumentSkipped ==
    (Ended /\ \E i \in 1..Len(calls) :
                 calls[i].api = "documents.get" /\ calls[i].status /= "ok")
    => /\ \A i \in 1..Len(calls) :
            (calls[i].api = "documents.get" /\ calls[i].status /= "ok")
            => calls[i - 1].status = "returned" /\ calls[i - 1].result = <<>>
       /\ Len(CallsOf("extract_content")) = Len(documents)
       /\ Len(CallsOf("generate_report")) = 1
       /\ Len(CallsOf("create_report_document")) = 1

====
